---- MODULE Spec2Model ----
(***************************************************************************)
(* A model of the captcha generator (package captcha): the construction    *)
(* of a Captcha by New from its options, the Generate pipeline             *)
(* (randomString, drawString/drawChar, drawNoise, drawLines), and the      *)
(* helpers pixelBounds, randomNearColor and the drawStraightLine loop.     *)
(*                                                                         *)
(* float64 values are modelled as rationals [num, den] (den > 0), uint8    *)
(* arithmetic is modulo 256, strings are sequences of bytes, and a canvas  *)
(* is its size together with the set of its pixels of non-zero alpha.      *)
(***************************************************************************)
EXTENDS Integers, Sequences, FiniteSets, TLC

VARIABLES
    opts,      \* the options the caller passes to New
    phase,     \* "new": New not called yet; "ready": New returned a Captcha; "failed": New returned an error
    applied,   \* the Captcha fields right after the options were applied (New's local c)
    captcha,   \* the Captcha New returned (shared by every Generate call), or Nil
    newErr,    \* the error New returned, "" for none
    created,   \* the Captcha as it was when New returned
    pc,        \* per goroutine: the position inside Generate
    loc,       \* per goroutine: the locals of its Generate call
    crashed,   \* TRUE once a goroutine panicked (a Go panic ends the process)
    procs,     \* the goroutines that call Generate
    ln,        \* drawStraightLine: the state of the rasterizer loop
    pb,        \* pixelBounds: the state of the scan
    nc         \* randomNearColor: base colour, offsets and result

vars == <<opts, phase, applied, captcha, newErr, created, pc, loc, crashed, procs, ln, pb, nc>>
genVars == <<opts, phase, applied, captcha, newErr, created, pc, loc, crashed, procs>>

Nil == [nil |-> TRUE]

(***************************************************************************)
(* Bounds of the model.                                                    *)
(***************************************************************************)
MaxSize == 2       \* WithSize draws width and height from -1..MaxSize
MaxLength == 2     \* WithLength draws from -1..MaxLength
MaxLines == 2      \* WithLines draws from -1..MaxLines
MaxExtraOpts == 1  \* options passed besides WithFont, WithCharSet, WithLength
MaxCalls == 2      \* Generate calls per goroutine
NumProcs == 2      \* goroutines of the concurrent runs
LineSize == 3      \* side of the canvas of the drawStraightLine runs
BoundsSize == 3    \* side of the canvases pixelBounds is run on

(***************************************************************************)
(* float64 as rationals                                                    *)
(***************************************************************************)
F(n, d) == [num |-> n, den |-> d]
FEq(a, b) == a.num * b.den = b.num * a.den
FLt(a, b) == a.num * b.den < b.num * a.den
FLe(a, b) == a.num * b.den <= b.num * a.den
FMul(a, b) == F(a.num * b.num, a.den * b.den)
FAdd(a, b) == F(a.num * b.den + b.num * a.den, a.den * b.den)
FSub(a, b) == F(a.num * b.den - b.num * a.den, a.den * b.den)
FInt(n) == F(n, 1)
\* Go's int(f): truncation toward zero
Trunc(a) == IF a.num >= 0 THEN a.num \div a.den ELSE -((-a.num) \div a.den)
\* fixed.Int26_6.Ceil of a non-negative measure
Ceil(a) == -((-a.num) \div a.den)

(***************************************************************************)
(* Strings: a Go string is a sequence of bytes.  Indexing a string yields  *)
(* a byte, ranging over it yields the runes of its UTF-8 decoding.         *)
(* The model decodes the one- and two-byte forms, which are the forms of   *)
(* the byte values it uses.                                                *)
(***************************************************************************)
RuneError == 65533

IsCont(b) == b >= 128 /\ b <= 191
IsLead2(b) == b >= 194 /\ b <= 223

RECURSIVE Runes(_)
Runes(s) ==
    IF s = <<>> THEN <<>>
    ELSE IF s[1] < 128 THEN <<s[1]>> \o Runes(Tail(s))
    ELSE IF IsLead2(s[1]) /\ Len(s) >= 2 /\ IsCont(s[2])
         THEN <<(s[1] - 192) * 64 + (s[2] - 128)>> \o Runes(Tail(Tail(s)))
    ELSE <<RuneError>> \o Runes(Tail(s))

Range(s) == {s[i] : i \in DOMAIN s}

AlphaNumericWithoutConfusion ==
    <<65, 66, 67, 68, 69, 70, 71, 72, 75, 76, 77, 78, 80, 81, 82, 83, 84,
      85, 86, 87, 88, 89, 90, 97, 98, 99, 100, 101, 102, 103, 104, 107, 109,
      110, 112, 113, 115, 117, 118, 119, 120, 121, 122, 50, 51, 52, 53, 54,
      55, 56, 57>>

(***************************************************************************)
(* Colours                                                                 *)
(***************************************************************************)
RGBA(r, g, b, a) == [R |-> r, G |-> g, B |-> b, A |-> a]

(***************************************************************************)
(* The Captcha struct and New                                              *)
(***************************************************************************)
Defaults ==
    [ width         |-> 120,
      height        |-> 50,
      charSet       |-> AlphaNumericWithoutConfusion,
      minLength     |-> 4,
      maxLength     |-> 4,
      fontPath      |-> "",
      fontSize      |-> FInt(36),
      foreground    |-> RGBA(0, 0, 0, 255),
      background    |-> RGBA(255, 255, 255, 255),
      minSpacing    |-> FInt(1),
      maxSpacing    |-> FInt(1),
      minRotation   |-> FInt(0),
      maxRotation   |-> FInt(0),
      minScale      |-> FInt(1),
      maxScale      |-> FInt(1),
      minDistortion |-> FInt(0),
      maxDistortion |-> FInt(0),
      minLines      |-> 3,
      maxLines      |-> 7,
      noiseLevel    |-> F(1, 10),
      fontFace      |-> Nil ]

\* An option that was not passed is <<>>; one that was passed is the tuple of
\* its arguments.
Passed(o) == o # <<>>

WithSize(c, o) == IF Passed(o) THEN [c EXCEPT !.width = o[1], !.height = o[2]] ELSE c
WithCharSet(c, o) == IF Passed(o) THEN [c EXCEPT !.charSet = o[1]] ELSE c
WithLength(c, o) == IF Passed(o) THEN [c EXCEPT !.minLength = o[1], !.maxLength = o[2]] ELSE c
WithFont(c, o) == IF Passed(o) THEN [c EXCEPT !.fontPath = o[1], !.fontSize = o[2]] ELSE c
WithBackground(c, o) == IF Passed(o) THEN [c EXCEPT !.background = o[1]] ELSE c
WithForeground(c, o) == IF Passed(o) THEN [c EXCEPT !.foreground = o[1]] ELSE c
WithSpacing(c, o) == IF Passed(o) THEN [c EXCEPT !.minSpacing = o[1], !.maxSpacing = o[2]] ELSE c
WithRotation(c, o) == IF Passed(o) THEN [c EXCEPT !.minRotation = o[1], !.maxRotation = o[2]] ELSE c
WithScale(c, o) == IF Passed(o) THEN [c EXCEPT !.minScale = o[1], !.maxScale = o[2]] ELSE c
WithDistortion(c, o) == IF Passed(o) THEN [c EXCEPT !.minDistortion = o[1], !.maxDistortion = o[2]] ELSE c
WithLines(c, o) == IF Passed(o) THEN [c EXCEPT !.minLines = o[1], !.maxLines = o[2]] ELSE c
WithNoise(c, o) == IF Passed(o) THEN [c EXCEPT !.noiseLevel = o[1]] ELSE c

\* for _, opt := range opts { opt(c) }: every option writes fields of its own,
\* so the result does not depend on the order the options are passed in.
ApplyOptions(c, os) ==
    WithNoise(WithLines(WithDistortion(WithScale(WithRotation(WithSpacing(
    WithForeground(WithBackground(WithFont(WithLength(WithCharSet(WithSize(c,
        os.size), os.charSet), os.length), os.font), os.background), os.foreground),
        os.spacing), os.rotation), os.scale), os.distortion), os.lines), os.noise)

\* The cases of the switch of New.
InvalidSize(c) == c.width <= 0 \/ c.height <= 0
InvalidCharSet(c) == c.charSet = <<>>
InvalidFontPath(c) == c.fontPath = ""
InvalidFontSize(c) == FLe(c.fontSize, FInt(0))

\* InvalidLength without the test of the order of the two ends.
InvalidLengthUnordered(c) == c.minLength < 0 \/ c.maxLength < 0

InvalidLength(c) == c.minLength < 0 \/ c.maxLength < 0 \/ c.minLength > c.maxLength
InvalidSpacing(c) ==
    FLt(c.minSpacing, FInt(0)) \/ FLt(c.maxSpacing, FInt(0)) \/ FLt(c.maxSpacing, c.minSpacing)
InvalidRotation(c) ==
    FLt(c.minRotation, FInt(-180)) \/ FLt(FInt(180), c.maxRotation) \/ FLt(c.maxRotation, c.minRotation)
InvalidScale(c) ==
    FLt(c.minScale, FInt(0)) \/ FLt(c.maxScale, FInt(0)) \/ FLt(c.maxScale, c.minScale)
InvalidDistortion(c) ==
    FLt(c.minDistortion, FInt(0)) \/ FLt(c.maxDistortion, FInt(0)) \/ FLt(c.maxDistortion, c.minDistortion)
InvalidLines(c) == c.minLines < 0 \/ c.maxLines < 0 \/ c.minLines > c.maxLines

\* InvalidNoise without the upper limit.
InvalidNoiseNegative(c) == FLt(c.noiseLevel, FInt(0))

InvalidNoise(c) == FLt(c.noiseLevel, FInt(0)) \/ FLt(FInt(1), c.noiseLevel)

\* The switch of New: the error of the first case that holds, "" for none.
Validate(c) ==
    IF InvalidSize(c) THEN "width and height must be greater than 0"
    ELSE IF InvalidCharSet(c) THEN "char set is required"
    ELSE IF InvalidFontPath(c) THEN "font path is required"
    ELSE IF InvalidFontSize(c) THEN "font size must be greater than 0"
    ELSE IF InvalidLength(c)
         THEN "min length must be greater than 0 and max length must be greater than min length"
    ELSE IF InvalidSpacing(c)
         THEN "min spacing must be greater than 0 and max spacing must be greater than min spacing"
    ELSE IF InvalidRotation(c)
         THEN "min rotation must be between -180 and 180 and max rotation must be greater than min rotation"
    ELSE IF InvalidScale(c)
         THEN "min scale must be greater than 0 and max scale must be greater than min scale"
    ELSE IF InvalidDistortion(c)
         THEN "min distortionmust be greater than 0 and max distortion must be greater than min distortion"
    ELSE IF InvalidLines(c)
         THEN "min lines must be greater than 0 and max lines must be greater than min lines"
    ELSE IF InvalidNoise(c) THEN "noise level must be between 0 and 1"
    ELSE ""

\* os.ReadFile and opentype.Parse on the files of the modelled file system.
ReadFile(path) == IF path \in {"font.ttf", "broken.ttf"} THEN "" ELSE "open: no such file or directory"
ParseFont(path) == IF path = "font.ttf" THEN "" ELSE "sfnt: invalid font"

\* opentype.NewFace at the configured size: the metrics of the modelled font.
\* Ascent 3/4 em, descent 1/4 em, line height 9/8 em, advance 1/2 em.
NewFace(size) ==
    [ ascent  |-> Ceil(FMul(size, F(3, 4))),
      descent |-> Ceil(FMul(size, F(1, 4))),
      height  |-> Ceil(FMul(size, F(9, 8))),
      advance |-> FMul(size, F(1, 2)) ]


(***************************************************************************)
(* Canvases (image.RGBA) and rectangles (image.Rectangle)                  *)
(***************************************************************************)
\* Go's integer division truncates toward zero.
GoDiv(a, b) == IF a >= 0 THEN a \div b ELSE -((-a) \div b)

Max2(a, b) == IF a > b THEN a ELSE b
Min2(a, b) == IF a < b THEN a ELSE b

\* image.Rect: the rectangle with the corners put in order.
Rect(x0, y0, x1, y1) ==
    [ minX |-> Min2(x0, x1), minY |-> Min2(y0, y1),
      maxX |-> Max2(x0, x1), maxY |-> Max2(y0, y1) ]
Dx(r) == r.maxX - r.minX
Dy(r) == r.maxY - r.minY
\* Point.In(r): Min inclusive, Max exclusive.
InRect(x, y, r) == r.minX <= x /\ x < r.maxX /\ r.minY <= y /\ y < r.maxY

\* image.NewRGBA(image.Rect(0, 0, w, h)): transparent, allocated by `by`.
NewRGBA(w, h, by) == [w |-> w, h |-> h, px |-> {}, by |-> by]
Bounds(cv) == Rect(0, 0, cv.w, cv.h)
Opaque(cv, x, y) == <<x, y>> \in cv.px

\* One visit of the inner loop of pixelBounds, at pixel (x, y).
PbVisit(st, cv, x, y) ==
    IF Opaque(cv, x, y)
    THEN [ minX |-> IF x < st.minX THEN x ELSE st.minX,
           maxX |-> IF x > st.maxX THEN x ELSE st.maxX,
           minY |-> IF y < st.minY THEN y ELSE st.minY,
           maxY |-> IF y > st.maxY THEN y ELSE st.maxY ]
    ELSE st

\* minX, minY := bounds.Max.X, bounds.Max.Y; maxX, maxY := bounds.Min.X, bounds.Min.Y
PbStart(cv) == [minX |-> cv.w, minY |-> cv.h, maxX |-> 0, maxY |-> 0]

\* The inner loop: for x := bounds.Min.X; x < bounds.Max.X; x++
RECURSIVE PbRow(_, _, _, _)
PbRow(cv, x, y, st) ==
    IF x >= cv.w THEN st
    \* (the test, which always holds, has the visit evaluated before the next)
    ELSE LET visited == PbVisit(st, cv, x, y)
         IN  IF visited.minX <= cv.w THEN PbRow(cv, x + 1, y, visited) ELSE visited

\* The outer loop: for y := bounds.Min.Y; y < bounds.Max.Y; y++
RECURSIVE PbScan(_, _, _)
PbScan(cv, y, st) ==
    IF y >= cv.h THEN st
    ELSE LET row == PbRow(cv, 0, y, st)
         IN  IF row.minX <= cv.w THEN PbScan(cv, y + 1, row) ELSE row

\* return image.Rect(minX, minY, maxX, maxY)
PbResult(st) == Rect(st.minX, st.minY, st.maxX, st.maxY)

pixelBounds(cv) == PbResult(PbScan(cv, 0, PbStart(cv)))

\* dst := image.NewRGBA(image.Rect(0, 0, bounds.Dx(), bounds.Dy()))
\* draw.Draw(dst, dst.Bounds(), canvas, bounds.Min, draw.Over)
Crop(cv, r, by) ==
    [ w |-> Dx(r), h |-> Dy(r), by |-> by,
      px |-> {<<p[1] - r.minX, p[2] - r.minY>> : p \in {q \in cv.px : InRect(q[1], q[2], r)}} ]

\* draw.Draw(dst, image.Rect(x, y, dst.w, dst.h), src, image.Pt(0, 0), draw.Over):
\* the source's pixel (i, j) lands on (r.Min.X + i, r.Min.Y + j) of the
\* destination, clipped to the rectangle and to the destination.
Paste(dst, src, x, y) ==
    LET r == Rect(x, y, dst.w, dst.h)
        moved == {<<r.minX + p[1], r.minY + p[2]>> : p \in src.px}
    IN  [dst EXCEPT !.px = @ \cup {q \in moved : InRect(q[1], q[2], r) /\ InRect(q[1], q[2], Bounds(dst))}]


(***************************************************************************)
(* The random source (math/rand/v2)                                        *)
(***************************************************************************)
\* rand.IntN(n) panics when n <= 0 and returns a value of 0..n-1 otherwise.
IntNPanics(n) == n <= 0
IntN(n) == 0 .. (n - 1)
\* rand.Float64() returns a value of [0, 1): the values the model draws.
Float64 == {F(0, 1), F(1, 2)}

\* rand.Float64()*(max-min) + min
Between(u, min, max) == FAdd(FMul(u, FSub(max, min)), min)

(***************************************************************************)
(* The font engine: font.MeasureString and font.Drawer.DrawString on the   *)
(* face New created.  The modelled font has four glyph shapes, given by    *)
(* the rows of ink relative to the baseline: a capital (the whole ascent), *)
(* a letter with a descender, a dash (one row) and the space (no ink).     *)
(***************************************************************************)
GlyphRows(face, rune) ==
    CASE rune = 32  -> [top |-> 0, bottom |-> 0]
      [] rune = 45  -> [top |-> -(face.ascent \div 2), bottom |-> 1 - (face.ascent \div 2)]
      [] rune = 103 -> [top |-> -(face.ascent \div 2), bottom |-> face.descent]
      [] OTHER      -> [top |-> -face.ascent, bottom |-> 0]

\* font.MeasureString(face, s).Ceil(): the advances of the n runes of s.
MeasureRunes(face, n) == Ceil(FMul(FInt(n), face.advance))
MeasureString(face, s) == MeasureRunes(face, Len(Runes(s)))

\* drawer.DrawString(string(char)) with the dot at (dotX, dotY): the ink of
\* the glyph, one advance wide, clipped to the canvas.
DrawGlyph(cv, face, rune, dotX, dotY) ==
    LET rows == GlyphRows(face, rune)
        adv  == Ceil(face.advance)
    IN  [cv EXCEPT !.px = @ \cup
            { <<x, y>> \in (0 .. cv.w - 1) \X (0 .. cv.h - 1) :
                /\ dotX <= x /\ x < dotX + adv
                /\ dotY + rows.top <= y /\ y < dotY + rows.bottom }]

(***************************************************************************)
(* The glyph transformer: scaleChar, distortChar, rotateChar               *)
(***************************************************************************)
\* draw.CatmullRom.Scale(dst, dst.Bounds(), src, src.Bounds(), draw.Over, nil),
\* modelled by the nearest source pixel of each destination pixel.
Resample(src, newW, newH, by) ==
    [ w |-> newW, h |-> newH, by |-> by,
      px |-> { p \in (0 .. newW - 1) \X (0 .. newH - 1) :
                 Opaque(src, (p[1] * src.w) \div newW, (p[2] * src.h) \div newH) } ]

\* The canvases scaleChar may return.
scaleChar(c, src, by) ==
    IF FEq(c.minScale, c.maxScale)
    THEN IF FEq(c.minScale, FInt(1))
         THEN {src}
         ELSE {Resample(src, Trunc(FMul(FInt(src.w), c.minScale)),
                             Trunc(FMul(FInt(src.h), c.minScale)), by)}
    ELSE { Resample(src,
                    Trunc(FMul(FInt(src.w), Between(u[1], c.minScale, c.maxScale))),
                    Trunc(FMul(FInt(src.h), Between(u[2], c.minScale, c.maxScale))), by) :
           u \in Float64 \X Float64 }

\* The canvases distortChar may return.  The amplitudes of the model are
\* below 1, so int(xOfs) and int(yOfs) are 0 at every pixel and every pixel
\* of dst is set from the same pixel of src.
distortChar(c, src, by) ==
    IF FEq(c.minDistortion, c.maxDistortion) /\ FEq(c.minDistortion, FInt(0))
    THEN {src}
    ELSE {[src EXCEPT !.by = by]}

\* floor(sqrt(2)*n): the largest value of |n*cos + |n*sin||
Sqrt2Times(n) == CHOOSE k \in 0 .. 2 * n : k * k <= 2 * n * n /\ (k + 1) * (k + 1) > 2 * n * n

\* dstW, dstH := int(|srcW*cos + |srcW*sin||), int(|srcH*cos + |srcH*sin||) for
\* the angles of the model, multiples of 90 degrees.  At +-90 the factor
\* is 1; at +-180 the float64 sum falls just below the source's size; over a
\* range the factor |cos + |sin|| takes every value between 0 (at 135
\* degrees) or 1 and sqrt(2), of which the model draws the ends and the
\* middle.
RotFactors(lo, hi) ==
    IF FLe(FInt(-90), lo) /\ FLe(hi, FInt(90)) THEN {"one", "sqrt2"}
    ELSE IF FLe(hi, FInt(-90)) \/ FLe(FInt(90), lo) THEN {"zero", "half", "one"}
    ELSE {"zero", "half", "one", "sqrt2"}

RotDim(n, factor) ==
    CASE factor = "zero"  -> 0
      [] factor = "half"  -> n \div 2
      [] factor = "one"   -> n
      [] factor = "below" -> Max2(n - 1, 0)
      [] factor = "sqrt2" -> Sqrt2Times(n)

\* draw.CatmullRom.Transform(dst, m, src, srcBounds, draw.Over, nil), modelled
\* as covering dst when src has ink.
Transformed(src, dstW, dstH, by) ==
    [ w |-> dstW, h |-> dstH, by |-> by,
      px |-> IF src.px = {} THEN {} ELSE (0 .. dstW - 1) \X (0 .. dstH - 1) ]

\* The canvases rotateChar may return.
rotateChar(c, src, by) ==
    IF FEq(c.minRotation, c.maxRotation)
    THEN IF FEq(c.minRotation, FInt(0))
         THEN {src}
         ELSE LET f == IF FEq(c.minRotation, FInt(90)) \/ FEq(c.minRotation, FInt(-90))
                       THEN "one" ELSE "below"
              IN  {Transformed(src, RotDim(src.w, f), RotDim(src.h, f), by)}
    ELSE { Transformed(src, RotDim(src.w, f), RotDim(src.h, f), by) :
           f \in RotFactors(c.minRotation, c.maxRotation) }

\* The canvases drawChar may return for one character.
drawChar(c, char, by) ==
    LET face     == c.fontFace
        charWith == MeasureRunes(face, 1)
        charHeight == face.ascent + face.descent
        size     == Max2(charWith, charHeight)
        drawn    == DrawGlyph(NewRGBA(size, size, by), face, char,
                              size \div 2 - charWith \div 2, size \div 2 + face.descent)
        effected == UNION { UNION { rotateChar(c, d, by) : d \in distortChar(c, sc, by) } :
                            sc \in scaleChar(c, drawn, by) }
    IN  { Crop(cv, pixelBounds(cv), by) : cv \in effected }


(***************************************************************************)
(* Generate                                                                *)
(***************************************************************************)
\* The lengths Captcha.randomString may choose.
codeLengths(c) ==
    IF c.minLength = c.maxLength
    THEN {c.minLength}
    ELSE {k + c.minLength : k \in IntN(c.maxLength - c.minLength + 1)}

\* randomString(length, set): b[i] = set[rand.IntN(len(set))], a byte of set.
randomString(length, set) ==
    { [i \in 1 .. length |-> set[idx[i] + 1]] : idx \in [1 .. length -> IntN(Len(set))] }

\* The counts of line artifacts drawLines may choose.
lineCounts(c) ==
    IF c.minLines = c.maxLines
    THEN {c.minLines}
    ELSE {k + c.minLines : k \in IntN(c.maxLines - c.minLines)}

\* The spacings drawString may choose for one character.
spacings(c) ==
    IF FEq(c.minSpacing, c.maxSpacing)
    THEN {c.minSpacing}
    ELSE {Between(u, c.minSpacing, c.maxSpacing) : u \in Float64}

\* width and height of the working canvas of drawString
stringWidth(c, code) ==
    MeasureString(c.fontFace, code) * Trunc(FMul(c.maxSpacing, c.maxScale)) * 2
stringHeight(c) == c.fontFace.height * Trunc(c.maxScale) * 2

NoCanvas == NewRGBA(0, 0, <<0, 0, "none">>)

\* The locals of a goroutine that is not inside Generate, after n calls.
Idle(n) ==
    [ calls |-> n, code |-> <<>>, canvas |-> NoCanvas, strCanvas |-> NoCanvas,
      i |-> 0, x |-> 0, y |-> 0, noiseCnt |-> 0, lineCnt |-> 0, drawn |-> 0 ]

\* The tag of a canvas: the goroutine, its call of Generate and the function
\* that allocated the canvas.
By(t, site) == <<t, loc[t].calls + 1, site>>

Goto(t, label) == pc' = [pc EXCEPT ![t] = label]
Panic(t) == /\ crashed' = TRUE
            /\ Goto(t, "panic")

Running(t, label) ==
    /\ phase = "ready"
    /\ ~crashed
    /\ t \in procs
    /\ pc[t] = label

\* New(opts...)
New ==
    /\ phase = "new"
    /\ LET c   == ApplyOptions(Defaults, opts)
           err == IF Validate(c) # "" THEN Validate(c)
                  ELSE IF ReadFile(c.fontPath) # "" THEN ReadFile(c.fontPath)
                  ELSE ParseFont(c.fontPath)
       IN  /\ applied' = c
           /\ newErr' = err
           /\ IF err # ""
              THEN /\ phase' = "failed"
                   /\ UNCHANGED <<captcha, created>>
              ELSE /\ phase' = "ready"
                   /\ captcha' = [c EXCEPT !.fontFace = NewFace(c.fontSize)]
                   /\ created' = captcha'
    /\ UNCHANGED <<opts, pc, loc, crashed, procs, ln, pb, nc>>

\* Generate, up to the call of drawString: the code and the background canvas.
GenerateBegin(t) ==
    /\ Running(t, "idle")
    /\ loc[t].calls < MaxCalls
    /\ LET by == By(t, "Generate")
       IN  IF \E n \in codeLengths(captcha) : n > 0 /\ IntNPanics(Len(captcha.charSet))
           THEN Panic(t) /\ UNCHANGED loc
           ELSE \E n \in codeLengths(captcha) : \E code \in randomString(n, captcha.charSet) :
                    /\ loc' = [loc EXCEPT ![t].code = code,
                                          ![t].canvas = NewRGBA(captcha.width, captcha.height, by)]
                    /\ Goto(t, "drawString")
                    /\ UNCHANGED crashed
    /\ UNCHANGED <<opts, phase, applied, captcha, newErr, created, procs, ln, pb, nc>>

\* drawString, up to its loop: the working canvas and the pen.
DrawStringBegin(t) ==
    /\ Running(t, "drawString")
    /\ LET by     == By(t, "drawString")
           width  == stringWidth(captcha, loc[t].code)
           height == stringHeight(captcha)
       IN  loc' = [loc EXCEPT ![t].strCanvas = NewRGBA(width, height, by),
                              ![t].x = 0, ![t].y = height \div 3, ![t].i = 1]
    /\ Goto(t, "chars")
    /\ UNCHANGED <<opts, phase, applied, captcha, newErr, created, crashed, procs, ln, pb, nc>>

\* One pass of the loop of drawString, for the i-th character of the code.
DrawStringChar(t) ==
    /\ Running(t, "chars")
    /\ loc[t].i <= Len(Runes(loc[t].code))
    /\ LET by   == By(t, "drawChar")
           char == Runes(loc[t].code)[loc[t].i]
       IN  \E charImg \in drawChar(captcha, char, by) :
             LET charBounds == Bounds(charImg)
             IN  IF IntNPanics(Dy(charBounds) \div 4)
                 THEN Panic(t) /\ UNCHANGED loc
                 ELSE \E r \in IntN(Dy(charBounds) \div 4) : \E spacing \in spacings(captcha) :
                        LET yOfs == r - Dy(charBounds) \div 8
                        IN  /\ loc' = [loc EXCEPT
                                  ![t].strCanvas = Paste(@, charImg, loc[t].x, loc[t].y + yOfs),
                                  ![t].x = @ + Trunc(FMul(FInt(Dx(charBounds)), spacing)),
                                  ![t].i = @ + 1]
                            /\ UNCHANGED <<pc, crashed>>
    /\ UNCHANGED <<opts, phase, applied, captcha, newErr, created, procs, ln, pb, nc>>

\* The end of drawString (the cut to the pixel bounds) and the copy of the
\* string image to the centre of the canvas of Generate.
DrawStringEnd(t) ==
    /\ Running(t, "chars")
    /\ loc[t].i > Len(Runes(loc[t].code))
    /\ LET by        == By(t, "drawString")
           stringImg == Crop(loc[t].strCanvas, pixelBounds(loc[t].strCanvas), by)
           sx        == GoDiv(captcha.width - stringImg.w, 2)
           sy        == GoDiv(captcha.height - stringImg.h, 2)
       IN  loc' = [loc EXCEPT ![t].strCanvas = stringImg,
                              ![t].canvas = Paste(@, stringImg, sx, sy)]
    /\ Goto(t, "drawNoise")
    /\ UNCHANGED <<opts, phase, applied, captcha, newErr, created, crashed, procs, ln, pb, nc>>

\* canvas = c.drawNoise(canvas)
DrawNoise(t) ==
    /\ Running(t, "drawNoise")
    /\ LET by  == By(t, "drawNoise")
           src == loc[t].canvas
       IN  IF FEq(captcha.noiseLevel, FInt(0))
           THEN /\ Goto(t, "drawLines")
                /\ UNCHANGED <<loc, captcha, crashed>>
           ELSE LET level    == IF FLt(FInt(1), captcha.noiseLevel) THEN FInt(1) ELSE captcha.noiseLevel
                    noiseCnt == Trunc(FMul(FInt(src.w * src.h), level))
                IN  /\ captcha' = [captcha EXCEPT !.noiseLevel = level]
                    /\ IF noiseCnt > 0 /\ (IntNPanics(src.w) \/ IntNPanics(src.h))
                       THEN Panic(t) /\ UNCHANGED loc
                       ELSE /\ loc' = [loc EXCEPT ![t].canvas = [src EXCEPT !.by = by],
                                                  ![t].noiseCnt = noiseCnt]
                            /\ Goto(t, "drawLines")
                            /\ UNCHANGED crashed
    /\ UNCHANGED <<opts, phase, applied, newErr, created, procs, ln, pb, nc>>

\* canvas = c.drawLines(canvas)
DrawLines(t) ==
    /\ Running(t, "drawLines")
    /\ LET by  == By(t, "drawLines")
           src == loc[t].canvas
       IN  IF captcha.minLines = captcha.maxLines /\ captcha.minLines = 0
           THEN /\ Goto(t, "return")
                /\ UNCHANGED <<loc, crashed>>
           ELSE IF captcha.minLines # captcha.maxLines
                   /\ IntNPanics(captcha.maxLines - captcha.minLines)
                THEN Panic(t) /\ UNCHANGED loc
                ELSE \E lineCnt \in lineCounts(captcha) :
                       IF lineCnt > 0 /\ (IntNPanics(src.w) \/ IntNPanics(src.h))
                       THEN Panic(t) /\ UNCHANGED loc
                       ELSE /\ loc' = [loc EXCEPT ![t].canvas = [src EXCEPT !.by = by],
                                                  ![t].lineCnt = lineCnt,
                                                  ![t].drawn = lineCnt]
                            /\ Goto(t, "return")
                            /\ UNCHANGED crashed
    /\ UNCHANGED <<opts, phase, applied, captcha, newErr, created, procs, ln, pb, nc>>

\* return canvas, code
GenerateReturn(t) ==
    /\ Running(t, "return")
    /\ loc' = [loc EXCEPT ![t] = Idle(loc[t].calls + 1)]
    /\ Goto(t, "idle")
    /\ UNCHANGED <<opts, phase, applied, captcha, newErr, created, crashed, procs, ln, pb, nc>>


(***************************************************************************)
(* The calls of New the model explores: New(WithFont("font.ttf", 8),       *)
(* WithCharSet("Ag"), WithLength(1, 2)) with up to MaxExtraOpts of its     *)
(* options replaced or added, each drawn from the values below.            *)
(***************************************************************************)
FloatVals == {F(-1, 2), F(0, 1), F(1, 2), F(1, 1), F(3, 2)}
RotationVals == {FInt(-181), FInt(-180), FInt(0), FInt(90), FInt(180), FInt(181)}
DistortionVals == {F(-1, 2), F(0, 1), F(1, 2)}
CharSets == {<<>>, <<65, 103>>, <<45>>, <<32>>, <<195, 169>>}
FontPaths == {"", "missing.ttf", "broken.ttf", "font.ttf"}

OptionValues(kind) ==
    CASE kind = "size"       -> (-1 .. MaxSize) \X (-1 .. MaxSize)
      [] kind = "charSet"    -> {<<cs>> : cs \in CharSets}
      [] kind = "length"     -> (-1 .. MaxLength) \X (-1 .. MaxLength)
      [] kind = "font"       -> FontPaths \X {FInt(0), FInt(8)}
      [] kind = "background" -> {<<RGBA(0, 0, 0, 0)>>}
      [] kind = "foreground" -> {<<RGBA(255, 0, 0, 255)>>}
      [] kind = "spacing"    -> FloatVals \X FloatVals
      [] kind = "rotation"   -> RotationVals \X RotationVals
      [] kind = "scale"      -> FloatVals \X FloatVals
      [] kind = "distortion" -> DistortionVals \X DistortionVals
      [] kind = "lines"      -> (-1 .. MaxLines) \X (-1 .. MaxLines)
      [] kind = "noise"      -> {<<v>> : v \in FloatVals}

OptionKinds == {"size", "charSet", "length", "font", "background", "foreground",
                "spacing", "rotation", "scale", "distortion", "lines", "noise"}

BaseOptions ==
    [ size |-> <<>>, charSet |-> <<<<65, 103>>>>, length |-> <<1, 2>>,
      font |-> <<"font.ttf", FInt(8)>>, background |-> <<>>, foreground |-> <<>>,
      spacing |-> <<>>, rotation |-> <<>>, scale |-> <<>>, distortion |-> <<>>,
      lines |-> <<>>, noise |-> <<>> ]

RECURSIVE OptionChoices(_)
OptionChoices(n) ==
    IF n = 0 THEN {BaseOptions}
    ELSE LET S == OptionChoices(n - 1)
         IN  S \cup UNION { UNION { {[o EXCEPT ![k] = v] : v \in OptionValues(k)} : k \in OptionKinds } : o \in S }

(***************************************************************************)
(* The specification of New and Generate                                   *)
(***************************************************************************)
Off == [on |-> FALSE]

GenInit(ps, choices) ==
    /\ opts \in choices
    /\ phase = "new"
    /\ applied = Nil
    /\ captcha = Nil
    /\ created = Nil
    /\ newErr = ""
    /\ procs = ps
    /\ pc = [t \in 1 .. NumProcs |-> "idle"]
    /\ loc = [t \in 1 .. NumProcs |-> Idle(0)]
    /\ crashed = FALSE
    /\ ln = Off
    /\ pb = Off
    /\ nc = Off

\* One goroutine calls Generate, again and again.
Init == GenInit({1}, OptionChoices(MaxExtraOpts))

Next ==
    \/ New
    \/ \E t \in procs : GenerateBegin(t)
    \/ \E t \in procs : DrawStringBegin(t)
    \/ \E t \in procs : DrawStringChar(t)
    \/ \E t \in procs : DrawStringEnd(t)
    \/ \E t \in procs : DrawNoise(t)
    \/ \E t \in procs : DrawLines(t)
    \/ \E t \in procs : GenerateReturn(t)

Spec == Init /\ [][Next]_vars

\* NumProcs goroutines call Generate on the same Captcha, one of
\* New(WithFont("font.ttf", 8), WithCharSet("A"), WithLength(1, 1)) with up to
\* one of WithSize, WithNoise and WithLines added: the options read by the
\* steps of Generate that follow drawString.
ConcOptionKinds == {"size", "noise", "lines"}

ConcOptions ==
    LET base == [BaseOptions EXCEPT !.charSet = <<<<65>>>>, !.length = <<1, 1>>]
    IN  {base} \cup UNION { {[base EXCEPT ![k] = v] : v \in OptionValues(k)} : k \in ConcOptionKinds }

ConcInit == GenInit(1 .. NumProcs, ConcOptions)

ConcSpec == ConcInit /\ [][Next]_vars

\* The calls of New alone.
NewSpec == Init /\ [][New]_vars


(***************************************************************************)
(* drawStraightLine: the end points are drawn inside the canvas, then the  *)
(* loop sets one pixel per pass.                                           *)
(***************************************************************************)
abs(x) == IF x < 0 THEN -x ELSE x

\* Lines 465-484: the end points and the set-up of the loop.
LineSetUp(w, h, x1, y1, x2, y2) ==
    [ on |-> TRUE, w |-> w, h |-> h,
      fromX |-> x1, fromY |-> y1,
      x1 |-> x1, y1 |-> y1, x2 |-> x2, y2 |-> y2,
      dx |-> abs(x2 - x1), dy |-> abs(y2 - y1),
      sx |-> IF x1 < x2 THEN 1 ELSE -1,
      sy |-> IF y1 < y2 THEN 1 ELSE -1,
      err |-> abs(x2 - x1) - abs(y2 - y1),
      set |-> <<>>, done |-> FALSE ]

\* LineAdvance with the first test against dy, not -dy (if err2 > dy).
LineAdvanceUnsignedTest(l) ==
    LET err2  == 2 * l.err
        stepX == err2 > l.dy
        stepY == err2 < l.dx
    IN  [l EXCEPT !.err = (IF stepX THEN @ - l.dy ELSE @) + (IF stepY THEN l.dx ELSE 0),
                  !.x1  = IF stepX THEN @ + l.sx ELSE @,
                  !.y1  = IF stepY THEN @ + l.sy ELSE @]

\* LineAdvance with the x step taken without its test.
LineAdvanceAlwaysX(l) ==
    LET err2  == 2 * l.err
        stepY == err2 < l.dx
    IN  [l EXCEPT !.err = (@ - l.dy) + (IF stepY THEN l.dx ELSE 0),
                  !.x1  = @ + l.sx,
                  !.y1  = IF stepY THEN @ + l.sy ELSE @]

\* Lines 493-501: the step to the next pixel.
LineAdvance(l) ==
    LET err2  == 2 * l.err
        stepX == err2 > -l.dy
        stepY == err2 < l.dx
    IN  [l EXCEPT !.err = (IF stepX THEN @ - l.dy ELSE @) + (IF stepY THEN l.dx ELSE 0),
                  !.x1  = IF stepX THEN @ + l.sx ELSE @,
                  !.y1  = IF stepY THEN @ + l.sy ELSE @]

\* One pass of the loop: img.Set(x1, y1, lineColor), then the break or the step.
LinePass(l) ==
    LET drawn == [l EXCEPT !.set = Append(@, <<l.x1, l.y1>>)]
    IN  IF l.x1 = l.x2 /\ l.y1 = l.y2
        THEN [drawn EXCEPT !.done = TRUE]
        ELSE LineAdvance(drawn)

LineIdle == [on |-> TRUE, done |-> TRUE, set |-> <<>>, w |-> 0, h |-> 0]

LineInit ==
    /\ ln = LineIdle
    /\ pb = Off
    /\ nc = Off
    /\ opts = BaseOptions
    /\ phase = "new"
    /\ applied = Nil
    /\ captcha = Nil
    /\ created = Nil
    /\ newErr = ""
    /\ procs = {}
    /\ pc = [t \in 1 .. NumProcs |-> "idle"]
    /\ loc = [t \in 1 .. NumProcs |-> Idle(0)]
    /\ crashed = FALSE

\* drawStraightLine(img) is called on a canvas of w x h pixels.
DrawStraightLine ==
    /\ ln.on /\ ln.done /\ ln.set = <<>>
    /\ \E w \in 1 .. LineSize, h \in 1 .. LineSize :
         \E x1 \in IntN(w), y1 \in IntN(h), x2 \in IntN(w), y2 \in IntN(h) :
            ln' = LineSetUp(w, h, x1, y1, x2, y2)
    /\ UNCHANGED <<genVars, pb, nc>>

LineLoop ==
    /\ ln.on /\ ~ln.done
    /\ ln' = LinePass(ln)
    /\ UNCHANGED <<genVars, pb, nc>>

LineNext == DrawStraightLine \/ LineLoop

LineSpec == LineInit /\ [][LineNext]_vars


(***************************************************************************)
(* Properties of drawStraightLine                                          *)
(***************************************************************************)
LineStarted == ln.on /\ ln.set # <<>>
StepX(i) == abs(ln.set[i + 1][1] - ln.set[i][1])
StepY(i) == abs(ln.set[i + 1][2] - ln.set[i][2])
Steps == 1 .. (Len(ln.set) - 1)

\* C6: between two end points inside the canvas the loop of drawStraightLine
\* ends, after max(dx, dy) + 1 passes, each of which brings the pen one unit
\* closer to the end point; the pixels it sets start at (x1, y1), end at
\* (x2, y2) once the loop is left, lie inside the canvas, differ from one to
\* the next by at most one unit in each axis, and are set once each.
C6_LineConnectsEndpoints ==
    LineStarted =>
        /\ ln.set[1] = <<ln.fromX, ln.fromY>>
        /\ \A i \in Steps : StepX(i) <= 1 /\ StepY(i) <= 1
        /\ \A i, j \in DOMAIN ln.set : i # j => ln.set[i] # ln.set[j]
        /\ \A i \in DOMAIN ln.set : InRect(ln.set[i][1], ln.set[i][2], Rect(0, 0, ln.w, ln.h))
        /\ Len(ln.set) <= Max2(ln.dx, ln.dy) + 1
        /\ ~ln.done => Len(ln.set) + Max2(abs(ln.x2 - ln.x1), abs(ln.y2 - ln.y1)) = Max2(ln.dx, ln.dy)
        /\ ln.done => /\ ln.set[Len(ln.set)] = <<ln.x2, ln.y2>>
                      /\ Len(ln.set) = Max2(ln.dx, ln.dy) + 1

\* A line of several pixels, steep, drawn to its end.
C6_Witness ==
    /\ LineStarted /\ ln.done
    /\ ln.dy > ln.dx /\ ln.dx > 0
    /\ ln.sx = -1

\* C7 as stated: every two pixels set one after the other differ by exactly
\* one unit in exactly one axis (a 4-connected path).
C7_FourConnected ==
    LineStarted => \A i \in Steps : StepX(i) + StepY(i) = 1

\* C7, amended: every two pixels set one after the other are neighbours in
\* the 8-connected sense: they differ by exactly one unit in one axis and by
\* at most one unit in the other, so a step may move in x and y at once.
C7_EightConnected ==
    LineStarted => \A i \in Steps : Max2(StepX(i), StepY(i)) = 1

\* A line drawn to its end with a step that moves in both axes.
C7_Witness ==
    /\ LineStarted /\ ln.done
    /\ \E i \in Steps : StepX(i) = 1 /\ StepY(i) = 1


(***************************************************************************)
(* pixelBounds, run row by row on every canvas of up to BoundsSize x       *)
(* BoundsSize pixels, and the cut its callers make with the result.        *)
(***************************************************************************)
BoundsInit ==
    /\ pb = [on |-> TRUE, cv |-> NoCanvas, y |-> 0, st |-> PbStart(NoCanvas),
             done |-> TRUE, result |-> Rect(0, 0, 0, 0), cut |-> NoCanvas]
    /\ ln = Off
    /\ nc = Off
    /\ opts = BaseOptions
    /\ phase = "new"
    /\ applied = Nil
    /\ captcha = Nil
    /\ created = Nil
    /\ newErr = ""
    /\ procs = {}
    /\ pc = [t \in 1 .. NumProcs |-> "idle"]
    /\ loc = [t \in 1 .. NumProcs |-> Idle(0)]
    /\ crashed = FALSE

\* pixelBounds(src) is called: lines 20-23.
PixelBoundsCall ==
    /\ pb.on /\ pb.done /\ pb.cv = NoCanvas
    /\ \E w \in 0 .. BoundsSize, h \in 0 .. BoundsSize :
         \E px \in SUBSET ((0 .. w - 1) \X (0 .. h - 1)) :
            LET cv == [NewRGBA(w, h, <<0, 0, "caller">>) EXCEPT !.px = px]
            IN  pb' = [pb EXCEPT !.cv = cv, !.y = 0, !.st = PbStart(cv), !.done = FALSE]
    /\ UNCHANGED <<genVars, ln, nc>>

\* One pass of the outer loop: the row y.
PixelBoundsRow ==
    /\ pb.on /\ ~pb.done
    /\ pb.y < pb.cv.h
    /\ pb' = [pb EXCEPT !.st = PbRow(pb.cv, 0, pb.y, pb.st), !.y = @ + 1]
    /\ UNCHANGED <<genVars, ln, nc>>

\* The return of pixelBounds, and the cut of drawChar and drawString.
PixelBoundsReturn ==
    /\ pb.on /\ ~pb.done
    /\ pb.y >= pb.cv.h
    /\ pb' = [pb EXCEPT !.done = TRUE, !.result = PbResult(pb.st),
                        !.cut = Crop(pb.cv, PbResult(pb.st), <<0, 0, "caller">>)]
    /\ UNCHANGED <<genVars, ln, nc>>

BoundsNext == PixelBoundsCall \/ PixelBoundsRow \/ PixelBoundsReturn

BoundsSpec == BoundsInit /\ [][BoundsNext]_vars

\* C8: on a canvas with a pixel of non-zero alpha pixelBounds returns the
\* smallest rectangle that, read with Min inclusive and Max exclusive as the
\* callers' cut reads it, contains every pixel of non-zero alpha, those of
\* the last such row and column included.
C8_BoundsEncloseEveryPixel ==
    (pb.on /\ pb.done /\ pb.cv.px # {}) =>
        LET r  == pb.result
            xs == {p[1] : p \in pb.cv.px}
            ys == {p[2] : p \in pb.cv.px}
        IN  /\ \A p \in pb.cv.px : InRect(p[1], p[2], r)
            /\ \A x \in r.minX .. r.maxX - 1 : x = r.minX \/ x = r.maxX - 1 => x \in xs
            /\ \A y \in r.minY .. r.maxY - 1 : y = r.minY \/ y = r.maxY - 1 => y \in ys
            /\ Cardinality(pb.cut.px) = Cardinality(pb.cv.px)


(***************************************************************************)
(* randomNearColor                                                         *)
(***************************************************************************)
\* The conversion of an int to uint8, and uint8 arithmetic: modulo 256.
Uint8(n) == n % 256

clamp(v, min, max) ==
    IF v < min THEN min
    ELSE IF v > max THEN max
    ELSE v

\* The colour randomNearColor returns for the draws rd, gd, bd of rand.IntN(50).
\* base.RGBA() of a color.RGBA yields each 8-bit channel c as c*257, so
\* uint8(r>>8) is the channel itself.
randomNearColor(base, rd, gd, bd) ==
    LET r == base.R * 257
        g == base.G * 257
        b == base.B * 257
        a == base.A * 257
        rOffset == rd - 25
        gOffset == gd - 25
        bOffset == bd - 25
    IN  RGBA(clamp(Uint8(Uint8(r \div 256) + Uint8(rOffset)), 0, 255),
             clamp(Uint8(Uint8(g \div 256) + Uint8(gOffset)), 0, 255),
             clamp(Uint8(Uint8(b \div 256) + Uint8(bOffset)), 0, 255),
             Uint8(a \div 256))

\* The foreground colours randomNearColor is called with: the default and
\* the one WithForeground sets in the modelled calls of New.
NearColorBases == {Defaults.foreground} \cup {o[1] : o \in OptionValues("foreground")}

ColorInit ==
    /\ nc = [on |-> TRUE, called |-> FALSE, base |-> Defaults.foreground,
             offsets |-> <<0, 0, 0>>, result |-> Defaults.foreground]
    /\ ln = Off
    /\ pb = Off
    /\ opts = BaseOptions
    /\ phase = "new"
    /\ applied = Nil
    /\ captcha = Nil
    /\ created = Nil
    /\ newErr = ""
    /\ procs = {}
    /\ pc = [t \in 1 .. NumProcs |-> "idle"]
    /\ loc = [t \in 1 .. NumProcs |-> Idle(0)]
    /\ crashed = FALSE

\* lineColor := randomNearColor(c.foreground)
RandomNearColor ==
    /\ nc.on /\ ~nc.called
    /\ \E base \in NearColorBases : \E rd \in IntN(50), gd \in IntN(50), bd \in IntN(50) :
         nc' = [on |-> TRUE, called |-> TRUE, base |-> base,
                offsets |-> <<rd - 25, gd - 25, bd - 25>>,
                result |-> randomNearColor(base, rd, gd, bd)]
    /\ UNCHANGED <<genVars, ln, pb>>

ColorNext == RandomNearColor

ColorSpec == ColorInit /\ [][ColorNext]_vars

\* What the claim calls clamp(base channel + offset, 0, 255), over the integers.
ClampedSum(channel, offset) ==
    IF channel + offset < 0 THEN 0
    ELSE IF channel + offset > 255 THEN 255
    ELSE channel + offset

\* C9: randomNearColor keeps the alpha of the base colour and returns, in each
\* of R, G and B, the base channel plus the offset drawn for it, an integer
\* of [-25, 25], clamped to [0, 255]: at most 25 away from the base channel
\* and never wrapped around.
C9_NearColorClamped ==
    (nc.on /\ nc.called) =>
        /\ nc.result.A = nc.base.A
        /\ \A i \in 1 .. 3 : nc.offsets[i] >= -25 /\ nc.offsets[i] <= 25
        /\ nc.result.R = ClampedSum(nc.base.R, nc.offsets[1])
        /\ nc.result.G = ClampedSum(nc.base.G, nc.offsets[2])
        /\ nc.result.B = ClampedSum(nc.base.B, nc.offsets[3])
        /\ abs(nc.result.R - nc.base.R) <= 25
        /\ abs(nc.result.G - nc.base.G) <= 25
        /\ abs(nc.result.B - nc.base.B) <= 25


(***************************************************************************)
(* Properties of New and Generate                                          *)
(***************************************************************************)
Goroutines == 1 .. NumProcs

\* The goroutine holds the code randomString returned to its Generate call.
HasCode(t) == pc[t] \in {"drawString", "chars", "drawNoise", "drawLines", "return"}

\* C1: the code Generate returns has a length of minLength..maxLength (every
\* length of the range can be chosen), and every character of it is a
\* character of the configured character set.
C1_CodeWithinLengthAndCharSet ==
    phase = "ready" =>
        /\ codeLengths(captcha) = captcha.minLength .. captcha.maxLength
        /\ \A t \in Goroutines : HasCode(t) =>
              /\ Len(loc[t].code) \in captcha.minLength .. captcha.maxLength
              /\ Range(Runes(loc[t].code)) \subseteq Range(Runes(captcha.charSet))

\* C2: no call of Generate on a Captcha New returned fails: no rand.IntN is
\* called with a bound that is not positive.
C2_GenerateNeverPanics == ~crashed

\* C3: the number of line artifacts drawLines draws is one of
\* minLines..maxLines, every number of the range (maxLines too) can be
\* chosen, and with minLines = maxLines = 0 none is drawn and the canvas
\* drawNoise returned is returned as it is.
C3_LineCountCoversRange ==
    phase = "ready" =>
        /\ lineCounts(captcha) = captcha.minLines .. captcha.maxLines
        /\ \A t \in Goroutines : pc[t] = "return" =>
              /\ loc[t].drawn \in captcha.minLines .. captcha.maxLines
              /\ (captcha.minLines = 0 /\ captcha.maxLines = 0) =>
                    loc[t].drawn = 0 /\ loc[t].canvas.by[3] # "drawLines"

\* The canvases a goroutine holds inside Generate.
Canvases(t) == {loc[t].canvas} \cup (IF pc[t] \in {"chars", "drawNoise", "drawLines", "return"}
                                     THEN {loc[t].strCanvas} ELSE {})

\* C4: Generate writes no field of the Captcha, whatever the number of calls
\* and however the calls of several goroutines interleave: the Captcha stays
\* as New returned it, and every canvas a call works on was allocated by
\* this call.
C4_GenerateLeavesCaptchaUnchanged ==
    phase = "ready" =>
        /\ captcha = created
        /\ \A t \in Goroutines : HasCode(t) =>
              \A cv \in Canvases(t) : cv.by[1] = t /\ cv.by[2] = loc[t].calls + 1

\* Two goroutines inside Generate at once, one in its second call and past
\* drawNoise, on a Captcha with noise.
C4_Witness ==
    /\ phase = "ready"
    /\ FLt(FInt(0), captcha.noiseLevel)
    /\ \E t, u \in Goroutines :
          /\ t # u
          /\ pc[t] = "drawLines" /\ loc[t].calls = 1 /\ loc[t].noiseCnt > 0
          /\ pc[u] = "drawNoise"

\* The conditions under which the claim has New fail.
BadFloatRange(min, max) == FLt(min, FInt(0)) \/ FLt(max, FInt(0)) \/ FLt(max, min)
BadIntRange(min, max) == min < 0 \/ max < 0 \/ min > max
OutOfRange(c) ==
    \/ c.width <= 0 \/ c.height <= 0
    \/ Len(c.charSet) = 0
    \/ c.fontPath = ""
    \/ ~FLt(FInt(0), c.fontSize)
    \/ BadIntRange(c.minLength, c.maxLength)
    \/ BadFloatRange(c.minSpacing, c.maxSpacing)
    \/ BadFloatRange(c.minScale, c.maxScale)
    \/ BadFloatRange(c.minDistortion, c.maxDistortion)
    \/ BadIntRange(c.minLines, c.maxLines)
    \/ FLt(c.maxRotation, c.minRotation)
    \/ ~(FLe(FInt(-180), c.minRotation) /\ FLe(c.maxRotation, FInt(180)))
    \/ ~(FLe(FInt(0), c.noiseLevel) /\ FLe(c.noiseLevel, FInt(1)))

C10_StringCanvasHoldsGlyphs ==
    phase = "ready" =>
        \A t \in Goroutines : (pc[t] = "chars" /\ loc[t].i = 1 /\ loc[t].code # <<>>) =>
            LET measured == MeasureString(captcha.fontFace, loc[t].code)
                cv       == loc[t].strCanvas
            IN  /\ FLe(FMul(FMul(FInt(2 * measured), captcha.maxSpacing), captcha.maxScale), FInt(cv.w))
                /\ FLe(FMul(FInt(2 * captcha.fontFace.height), captcha.maxScale), FInt(cv.h))
                /\ ( /\ measured > 0 /\ captcha.fontFace.height > 0
                      /\ FLt(FInt(0), captcha.maxSpacing) /\ FLt(FInt(0), captcha.maxScale) )
                      => (cv.w > 0 /\ cv.h > 0)


====
